---- MODULE Spec2Model ----
(***************************************************************************)
(* Model of streamlit_app.py: the four SQLite tables (empresa, socio,      *)
(* pdffile, evento_empresa) behind a SQLAlchemy session, the Streamlit     *)
(* pages that write to them, and the PDF text extractor.                   *)
(*                                                                         *)
(* Every Streamlit rerun builds a fresh session (main -> get_session), so  *)
(* one action is one script run in which a button was pressed: it reads    *)
(* the committed tables, performs the handler's commits and leaves the     *)
(* message the page shows in `msg`.  A session.commit() can raise (the     *)
(* handlers guard it with `except Exception`); whether it does is an input *)
(* of the action (ok, ok1, ok2).                                           *)
(***************************************************************************)
EXTENDS Integers, Sequences, FiniteSets, TLC

VARIABLES
    empresa,          \* rows of table 'empresa'
    socio,            \* rows of table 'socio'
    pdffile,          \* rows of table 'pdffile'
    evento_empresa,   \* rows of table 'evento_empresa'
    atribuidos,       \* per table, the primary keys handed out to committed rows so far
    msg,              \* what the last script run showed: success, error, warning, exception, none
    pdf,              \* extrair_texto_pdf_bytes: the document being read
    pc,               \* extrair_texto_pdf_bytes: position in the function
    idx,              \* extrair_texto_pdf_bytes: index of the next page of the loop
    text_all          \* extrair_texto_pdf_bytes: the accumulator

dbvars == <<empresa, socio, pdffile, evento_empresa, atribuidos, msg>>
exvars == <<pdf, pc, idx, text_all>>
vars == <<empresa, socio, pdffile, evento_empresa, atribuidos, msg, pdf, pc, idx, text_all>>

----------------------------------------------------------------------------
(* Bounds *)

\* rows the database holds at a time, over the four tables
MaxLinhas == 5
\* largest primary key a table hands out
MaxChave == 2
\* files in one upload batch
MaxBatch == 2
\* pages of a document given to the extractor
MaxPages == 3

----------------------------------------------------------------------------
(* Input domains.  Texts are sequences of one-character strings. *)

\* None where an id is expected: st.selectbox over an empty list, socio_id=None
NoId == 0

Nomes == {"", "Acme"}
Formas == {"SA"}
Datas == {"2024-01-01"}
Textos == {<<>>}
NomesPDF == {"acto.pdf"}
Conteudos == {"%PDF"}

\* 'Criação Empresa', written without the accents
TipoCriacao == "Criacao Empresa"
TipoAccionista == "Inserir Accionista"
TiposGenericos == {"alteracao_contrato"}

\* FF is the form feed: str.strip() removes it, the JSON grammar does not accept it
SP == " "
FF == "\f"
QT == "\""

T_nota == <<"a">>
T_obj == <<"{", QT, "a", QT, ":", QT, "5", QT, "}">>
T_obj_ws == <<SP>> \o T_obj \o <<SP>>
T_trunc == <<"{", QT, "a", QT, ":">>
T_chave == <<"{", "a">>
T_ff == <<FF, "{", "}">>

DetalhesInputs == {T_nota, T_obj, T_obj_ws, T_trunc, T_chave, T_ff}

----------------------------------------------------------------------------
(* JSON values, all of one shape: a string or a number carries its          *)
(* characters in s, an object its members in o, in insertion order.         *)

JStr(cs) == [t |-> "str", s |-> cs, o |-> <<>>]
JNum(cs) == [t |-> "num", s |-> cs, o |-> <<>>]
JObj(ms) == [t |-> "obj", s |-> <<>>, o |-> ms]
Member(k, v) == [k |-> k, v |-> v]

\* d[k] = v on a dict kept as a sequence of members
RECURSIVE SetMember(_, _, _)
SetMember(ms, k, v) ==
    IF ms = <<>> THEN <<Member(k, v)>>
    ELSE IF Head(ms).k = k THEN <<Member(k, v)>> \o Tail(ms)
    ELSE <<Head(ms)>> \o SetMember(Tail(ms), k, v)

Raise == [ok |-> FALSE, pos |-> 0, val |-> JStr(<<>>)]
Ok(p, v) == [ok |-> TRUE, pos |-> p, val |-> v]

\* json whitespace is space, tab, newline, carriage return; of these the inputs hold the space
IsJsonWs(c) == c = SP
IsDigit(c) == c = "5"

RECURSIVE SkipWs(_, _)
SkipWs(s, i) == IF i <= Len(s) /\ IsJsonWs(s[i]) THEN SkipWs(s, i + 1) ELSE i

\* index of the quote closing a string whose body starts at i; 0 when the
\* string is unterminated or holds a control character
RECURSIVE ScanString(_, _)
ScanString(s, i) ==
    IF i > Len(s) THEN 0
    ELSE IF s[i] = QT THEN i
    ELSE IF s[i] = FF THEN 0
    ELSE ScanString(s, i + 1)

ParseString(s, i) ==
    LET j == ScanString(s, i + 1)
    IN  IF j = 0 THEN Raise ELSE Ok(j + 1, JStr(SubSeq(s, i + 1, j - 1)))

RECURSIVE ScanDigits(_, _)
ScanDigits(s, i) == IF i <= Len(s) /\ IsDigit(s[i]) THEN ScanDigits(s, i + 1) ELSE i

ParseNumber(s, i) ==
    LET j == ScanDigits(s, i) IN Ok(j, JNum(SubSeq(s, i, j - 1)))

RECURSIVE ParseValue(_, _)
RECURSIVE ParseMembers(_, _, _)

ParseObject(s, i) ==
    LET j == SkipWs(s, i + 1)
    IN  IF j > Len(s) THEN Raise
        ELSE IF s[j] = "}" THEN Ok(j + 1, JObj(<<>>))
        ELSE ParseMembers(s, j, <<>>)

ParseValue(s, i) ==
    IF i > Len(s) THEN Raise
    ELSE IF s[i] = QT THEN ParseString(s, i)
    ELSE IF s[i] = "{" THEN ParseObject(s, i)
    ELSE IF IsDigit(s[i]) THEN ParseNumber(s, i)
    ELSE Raise

ParseMembers(s, i, acc) ==
    IF i > Len(s) \/ s[i] # QT THEN Raise
    ELSE LET k == ParseString(s, i)
         IN  IF ~k.ok THEN Raise
             ELSE LET c == SkipWs(s, k.pos)
                  IN  IF c > Len(s) \/ s[c] # ":" THEN Raise
                      ELSE LET v == ParseValue(s, SkipWs(s, c + 1))
                           IN  IF ~v.ok THEN Raise
                               ELSE LET e == SkipWs(s, v.pos)
                                        acc2 == SetMember(acc, k.val.s, v.val)
                                    IN  IF e > Len(s) THEN Raise
                                        ELSE IF s[e] = "}" THEN Ok(e + 1, JObj(acc2))
                                        ELSE IF s[e] = "," THEN ParseMembers(s, SkipWs(s, e + 1), acc2)
                                        ELSE Raise

\* json.loads: one value between optional whitespace, anything after it raises
json_loads(s) ==
    LET v == ParseValue(s, SkipWs(s, 1))
    IN  IF v.ok /\ SkipWs(s, v.pos) > Len(s) THEN v ELSE Raise

\* str.strip(): Python whitespace, which includes the form feed
IsPyWs(c) == c = SP \/ c = FF

RECURSIVE lstrip(_)
lstrip(s) == IF s # <<>> /\ IsPyWs(Head(s)) THEN lstrip(Tail(s)) ELSE s

RECURSIVE rstrip(_)
rstrip(s) == IF s # <<>> /\ IsPyWs(s[Len(s)]) THEN rstrip(SubSeq(s, 1, Len(s) - 1)) ELSE s

strip(s) == rstrip(lstrip(s))

startswith(s, c) == s # <<>> /\ Head(s) = c

DESCRICAO == <<"d", "e", "s", "c", "r", "i", "c", "a", "o">>

\* line 278: json.loads(detalhes_str) if detalhes_str.strip().startswith('{')
\*           else {'descricao': detalhes_str}
detalhes_val_generico(detalhes_str) ==
    IF startswith(strip(detalhes_str), "{")
    THEN json_loads(detalhes_str)
    ELSE Ok(0, JObj(<<Member(DESCRICAO, JStr(detalhes_str))>>))

----------------------------------------------------------------------------
(* The tables *)

Tabelas == {"empresa", "socio", "pdffile", "evento_empresa"}

Max(S) == CHOOSE x \in S : \A y \in S : y <= x

EmpresaIds == {e.empresa_id : e \in empresa}
SocioIds == {x.socio_id : x \in socio}
FileIds == {f.file_id : f \in pdffile}
EventoIds == {ev.evento_id : ev \in evento_empresa}

\* INTEGER PRIMARY KEY of SQLite: the key of an inserted row is one more than
\* the largest key the table holds (the DDL carries no AUTOINCREMENT keyword)
NextId(ids) == IF ids = {} THEN 1 ELSE Max(ids) + 1

Empresa(id, nome, forma_juridica, data_constituicao) ==
    [empresa_id |-> id, nome |-> nome, forma_juridica |-> forma_juridica,
     data_constituicao |-> data_constituicao]

Socio(id, nome, nif, morada) ==
    [socio_id |-> id, nome |-> nome, nif |-> nif, morada |-> morada]

PDFFile(id, nome, data_upload, conteudo) ==
    [file_id |-> id, nome |-> nome, data_upload |-> data_upload, conteudo |-> conteudo]

EventoEmpresa(id, empresa_id, socio_id, data_evento, tipo, detalhes, arquivo_pdf_id) ==
    [evento_id |-> id, empresa_id |-> empresa_id, socio_id |-> socio_id,
     data_evento |-> data_evento, tipo |-> tipo, detalhes |-> detalhes,
     arquivo_pdf_id |-> arquivo_pdf_id]

Linhas == Cardinality(empresa) + Cardinality(socio) + Cardinality(pdffile)
          + Cardinality(evento_empresa)

\* room for n more rows
PodeCriar(n) == Linhas + n <= MaxLinhas

\* n more keys of a table stay within the keys modelled
TemChave(ids, n) == n = 0 \/ NextId(ids) + n - 1 <= MaxChave

\* a cascade that follows the wrong foreign key
eventos_pela_coluna_errada(id) == {ev \in evento_empresa : ev.socio_id = id}

\* cascade='all, delete-orphan' on Empresa.eventos: the events session.delete(emp) removes
eventos_da_empresa(id) == {ev \in evento_empresa : ev.empresa_id = id}

\* a relationship declared without the cascade
eventos_sem_cascata(id) == {}

\* cascade='all, delete-orphan' on Socio.eventos: the events session.delete(soc) removes
eventos_do_socio(id) == {ev \in evento_empresa : ev.socio_id = id}

\* what st.selectbox offers: the listed keys, or None when the list is empty
Opcoes(ids) == IF ids = {} THEN {NoId} ELSE ids

----------------------------------------------------------------------------
(* Initial state: a new database file, no page shown yet *)

Init ==
    /\ empresa = {}
    /\ socio = {}
    /\ pdffile = {}
    /\ evento_empresa = {}
    /\ atribuidos = [t \in Tabelas |-> {}]
    /\ msg = "none"
    /\ pdf = [readable |-> TRUE, pages |-> <<>>]
    /\ pc = "idle"
    /\ idx = 1
    /\ text_all = <<>>

----------------------------------------------------------------------------
(* Pages 'Empresas', 'Socios', 'Upload PDFs' *)

\* a script run in which no button is pressed: the page is drawn, nothing is written
Render ==
    /\ msg' = "none"
    /\ UNCHANGED <<empresa, socio, pdffile, evento_empresa>>

\* render_empresas, "Guardar Empresa"
GuardarEmpresa(nome, forma, data_const, ok) ==
    /\ PodeCriar(1)
    /\ TemChave(EmpresaIds, 1)
    /\ IF ok
       THEN LET nova == Empresa(NextId(EmpresaIds), nome, forma, data_const)
            IN  /\ empresa' = empresa \cup {nova}
                /\ msg' = "success"
       ELSE /\ msg' = "error"
            /\ UNCHANGED empresa
    /\ UNCHANGED <<socio, pdffile, evento_empresa>>

\* render_socios, "Guardar Socio"
GuardarSocio(nome, nif, morada, ok) ==
    /\ PodeCriar(1)
    /\ TemChave(SocioIds, 1)
    /\ IF ok
       THEN LET novo == Socio(NextId(SocioIds), nome, nif, morada)
            IN  /\ socio' = socio \cup {novo}
                /\ msg' = "success"
       ELSE /\ msg' = "error"
            /\ UNCHANGED socio
    /\ UNCHANGED <<empresa, pdffile, evento_empresa>>

\* the rows one commit adds for a batch of uploaded files, keys in upload order
RECURSIVE NovosPDFs(_, _, _)
NovosPDFs(files, ids, data) ==
    IF files = <<>> THEN <<>>
    ELSE LET id == NextId(ids)
         IN  <<PDFFile(id, Head(files).nome, data, Head(files).conteudo)>>
             \o NovosPDFs(Tail(files), ids \cup {id}, data)

Range(f) == {f[i] : i \in DOMAIN f}

Uploads == UNION {[1..n -> [nome : NomesPDF, conteudo : Conteudos]] : n \in 0..MaxBatch}

\* render_upload_pdfs, "Upload": one commit for the batch, no except clause
Upload(uploaded, hoje, ok) ==
    /\ PodeCriar(Len(uploaded))
    /\ TemChave(FileIds, Len(uploaded))
    /\ IF ok
       THEN LET novos == NovosPDFs(uploaded, FileIds, hoje)
            IN  /\ pdffile' = pdffile \cup Range(novos)
                /\ msg' = "success"
       ELSE /\ msg' = "exception"
            /\ UNCHANGED pdffile
    /\ UNCHANGED <<empresa, socio, evento_empresa>>

----------------------------------------------------------------------------
(* Page 'Processar PDFs': render_process_pdfs.  sel is the selected stored  *)
(* PDF; with no PDF stored the function returns before any form is drawn.   *)

CAPITAL_SOCIAL == <<"c", "a", "p", "i", "t", "a", "l", "_", "s", "o", "c", "i", "a", "l">>
MORADA == <<"m", "o", "r", "a", "d", "a">>
NOME_ACCIONISTA == <<"n", "o", "m", "e", "_", "a", "c", "c", "i", "o", "n", "i", "s", "t", "a">>
NIF_ACCIONISTA == <<"n", "i", "f", "_", "a", "c", "c", "i", "o", "n", "i", "s", "t", "a">>
MORADA_ACCIONISTA == <<"m", "o", "r", "a", "d", "a", "_", "a", "c", "c", "i", "o", "n", "i", "s", "t", "a">>
QUOTA_ACCIONISTA == <<"q", "u", "o", "t", "a", "_", "a", "c", "c", "i", "o", "n", "i", "s", "t", "a">>

\* a text input as the JSON string stored for it
TextoDe(nome) == IF nome = "" THEN <<>> ELSE <<nome>>

detalhes_val_criacao(cap_emp, morada_emp) ==
    JObj(<<Member(CAPITAL_SOCIAL, JStr(cap_emp)), Member(MORADA, JStr(morada_emp))>>)

detalhes_val_accionista(nome_acc, nif_acc, morada_acc, quota_acc) ==
    JObj(<<Member(NOME_ACCIONISTA, JStr(TextoDe(nome_acc))),
           Member(NIF_ACCIONISTA, JStr(nif_acc)),
           Member(MORADA_ACCIONISTA, JStr(morada_acc)),
           Member(QUOTA_ACCIONISTA, JStr(quota_acc))>>)

\* an attribute access that yields None instead of raising
attr_sem_erro(emp) == [ok |-> TRUE, val |-> emp]

\* emp.empresa_id: an AttributeError when the selectbox returned None
attr_empresa_id(emp) == [ok |-> emp # NoId, val |-> emp]

\* tipo == 'Criação Empresa', "Registrar Criação": the Empresa is committed
\* (ok1), then the EventoEmpresa is added and committed (ok2); the except
\* clause rolls back what the failed commit held and nothing else
RegistrarCriacao(sel, data_ev, nome_emp, morada_emp, cap_emp, ok1, ok2) ==
    /\ sel \in FileIds
    /\ PodeCriar(2)
    /\ TemChave(EmpresaIds, 1)
    /\ TemChave(EventoIds, 1)
    /\ IF ~ok1
       THEN /\ msg' = "error"
            /\ UNCHANGED <<empresa, evento_empresa>>
       ELSE LET nova_emp == Empresa(NextId(EmpresaIds), nome_emp, "SA", data_ev)
                novo_ev == EventoEmpresa(NextId(EventoIds), nova_emp.empresa_id, NoId, data_ev,
                                         TipoCriacao, detalhes_val_criacao(cap_emp, morada_emp), sel)
            IN  /\ empresa' = empresa \cup {nova_emp}
                /\ IF ok2
                   THEN /\ evento_empresa' = evento_empresa \cup {novo_ev}
                        /\ msg' = "success"
                   ELSE /\ evento_empresa' = evento_empresa
                        /\ msg' = "error"
    /\ UNCHANGED <<socio, pdffile>>

\* tipo == 'Inserir Accionista', "Registrar Acionista": the Socio is committed
\* (ok1); emp.empresa_id raises when no Empresa could be selected; then the
\* EventoEmpresa is added and committed (ok2)
RegistrarAccionista(sel, data_ev, emp, nome_acc, nif_acc, morada_acc, quota_acc, ok1, ok2) ==
    /\ sel \in FileIds
    /\ emp \in Opcoes(EmpresaIds)
    /\ PodeCriar(2)
    /\ TemChave(SocioIds, 1)
    /\ TemChave(EventoIds, 1)
    /\ IF ~ok1
       THEN /\ msg' = "error"
            /\ UNCHANGED <<socio, evento_empresa>>
       ELSE LET novo_soc == Socio(NextId(SocioIds), nome_acc, nif_acc, morada_acc)
                novo_ev == EventoEmpresa(NextId(EventoIds), attr_empresa_id(emp).val,
                                         novo_soc.socio_id, data_ev,
                                         TipoAccionista,
                                         detalhes_val_accionista(nome_acc, nif_acc, morada_acc, quota_acc),
                                         sel)
            IN  /\ socio' = socio \cup {novo_soc}
                /\ IF attr_empresa_id(emp).ok /\ ok2
                   THEN /\ evento_empresa' = evento_empresa \cup {novo_ev}
                        /\ msg' = "success"
                   ELSE /\ evento_empresa' = evento_empresa
                        /\ msg' = "error"
    /\ UNCHANGED <<empresa, pdffile>>

\* any other tipo, "Registrar Evento": detalhes_val (json.loads can raise),
\* emp.empresa_id (raises on None), one add and commit (ok)
RegistrarEvento(sel, tipo, data_ev, emp, soc, detalhes_str, ok) ==
    /\ sel \in FileIds
    /\ emp \in Opcoes(EmpresaIds)
    /\ soc \in {NoId} \cup SocioIds
    /\ PodeCriar(1)
    /\ TemChave(EventoIds, 1)
    /\ LET detalhes_val == detalhes_val_generico(detalhes_str)
           novo_ev == EventoEmpresa(NextId(EventoIds), attr_empresa_id(emp).val, soc,
                                    data_ev, tipo, detalhes_val.val, sel)
       IN  IF detalhes_val.ok /\ attr_empresa_id(emp).ok /\ ok
           THEN /\ evento_empresa' = evento_empresa \cup {novo_ev}
                /\ msg' = "success"
           ELSE /\ msg' = "error"
                /\ UNCHANGED evento_empresa
    /\ UNCHANGED <<empresa, socio, pdffile>>

----------------------------------------------------------------------------
(* Page 'Visualizar Registos': render_visualizar.  id_del is the selected   *)
(* key, confirm the checkbox, ok whether session.commit() goes through      *)
(* (the delete branches have no except clause).                             *)

EliminarEmpresa(id_del, confirm, ok) ==
    /\ id_del \in Opcoes(EmpresaIds)
    /\ IF confirm
       THEN IF id_del \in EmpresaIds
            THEN IF ok
                 THEN /\ empresa' = {e \in empresa : e.empresa_id # id_del}
                      /\ evento_empresa' = evento_empresa \ eventos_da_empresa(id_del)
                      /\ msg' = "success"
                 ELSE /\ msg' = "exception"
                      /\ UNCHANGED <<empresa, evento_empresa>>
            ELSE /\ msg' = "error"
                 /\ UNCHANGED <<empresa, evento_empresa>>
       ELSE /\ msg' = "warning"
            /\ UNCHANGED <<empresa, evento_empresa>>
    /\ UNCHANGED <<socio, pdffile>>

EliminarSocio(id_del, confirm, ok) ==
    /\ id_del \in Opcoes(SocioIds)
    /\ IF confirm
       THEN IF id_del \in SocioIds
            THEN IF ok
                 THEN /\ socio' = {x \in socio : x.socio_id # id_del}
                      /\ evento_empresa' = evento_empresa \ eventos_do_socio(id_del)
                      /\ msg' = "success"
                 ELSE /\ msg' = "exception"
                      /\ UNCHANGED <<socio, evento_empresa>>
            ELSE /\ msg' = "error"
                 /\ UNCHANGED <<socio, evento_empresa>>
       ELSE /\ msg' = "warning"
            /\ UNCHANGED <<socio, evento_empresa>>
    /\ UNCHANGED <<empresa, pdffile>>

\* a delete button that does not look at the checkbox
EliminarEventoSemCheckbox(id_del, confirm, ok) ==
    /\ id_del \in Opcoes(EventoIds)
    /\ IF id_del \in EventoIds
       THEN IF ok
            THEN /\ evento_empresa' = {ev \in evento_empresa : ev.evento_id # id_del}
                 /\ msg' = "success"
            ELSE /\ msg' = "exception"
                 /\ UNCHANGED evento_empresa
       ELSE /\ msg' = "error"
            /\ UNCHANGED evento_empresa
    /\ UNCHANGED <<empresa, socio, pdffile>>

EliminarEvento(id_del, confirm, ok) ==
    /\ id_del \in Opcoes(EventoIds)
    /\ IF confirm
       THEN IF id_del \in EventoIds
            THEN IF ok
                 THEN /\ evento_empresa' = {ev \in evento_empresa : ev.evento_id # id_del}
                      /\ msg' = "success"
                 ELSE /\ msg' = "exception"
                      /\ UNCHANGED evento_empresa
            ELSE /\ msg' = "error"
                 /\ UNCHANGED evento_empresa
       ELSE /\ msg' = "warning"
            /\ UNCHANGED evento_empresa
    /\ UNCHANGED <<empresa, socio, pdffile>>

----------------------------------------------------------------------------
(* The application: one button per script run *)

PaginaEmpresas ==
    \E nome \in Nomes, forma \in Formas, d \in Datas, ok \in BOOLEAN :
        GuardarEmpresa(nome, forma, d, ok)

PaginaSocios ==
    \E nome \in Nomes, nif \in Textos, morada \in Textos, ok \in BOOLEAN :
        GuardarSocio(nome, nif, morada, ok)

PaginaUpload ==
    \E uploaded \in Uploads, d \in Datas, ok \in BOOLEAN : Upload(uploaded, d, ok)

FormCriacao ==
    \E sel \in FileIds, d \in Datas, nome \in Nomes, morada \in Textos, cap \in Textos,
       ok1 \in BOOLEAN, ok2 \in BOOLEAN :
        RegistrarCriacao(sel, d, nome, morada, cap, ok1, ok2)

FormAccionista ==
    \E sel \in FileIds, d \in Datas, emp \in Opcoes(EmpresaIds), nome \in Nomes, nif \in Textos,
       morada \in Textos, quota \in Textos, ok1 \in BOOLEAN, ok2 \in BOOLEAN :
        RegistrarAccionista(sel, d, emp, nome, nif, morada, quota, ok1, ok2)

FormEvento ==
    \E sel \in FileIds, tipo \in TiposGenericos, d \in Datas, emp \in Opcoes(EmpresaIds),
       soc \in {NoId} \cup SocioIds, txt \in DetalhesInputs, ok \in BOOLEAN :
        RegistrarEvento(sel, tipo, d, emp, soc, txt, ok)

BotaoEliminarEmpresa ==
    \E id_del \in Opcoes(EmpresaIds), confirm \in BOOLEAN, ok \in BOOLEAN :
        EliminarEmpresa(id_del, confirm, ok)

BotaoEliminarSocio ==
    \E id_del \in Opcoes(SocioIds), confirm \in BOOLEAN, ok \in BOOLEAN :
        EliminarSocio(id_del, confirm, ok)

BotaoEliminarEvento ==
    \E id_del \in Opcoes(EventoIds), confirm \in BOOLEAN, ok \in BOOLEAN :
        EliminarEvento(id_del, confirm, ok)

\* a script run touches neither the extractor's variables nor the record of keys
Fixos == UNCHANGED <<atribuidos, pdf, pc, idx, text_all>>

Next ==
    \/ Render /\ Fixos
    \/ PaginaEmpresas /\ Fixos
    \/ PaginaSocios /\ Fixos
    \/ PaginaUpload /\ Fixos
    \/ FormCriacao /\ Fixos
    \/ FormAccionista /\ Fixos
    \/ FormEvento /\ Fixos
    \/ BotaoEliminarEmpresa /\ Fixos
    \/ BotaoEliminarSocio /\ Fixos
    \/ BotaoEliminarEvento /\ Fixos

Spec == Init /\ [][Next]_vars

\* the keys that rows committed by this step received
ChavesNovas ==
    [t \in Tabelas |->
        IF t = "empresa" THEN {e.empresa_id : e \in empresa'} \ EmpresaIds
        ELSE IF t = "socio" THEN {x.socio_id : x \in socio'} \ SocioIds
        ELSE IF t = "pdffile" THEN {f.file_id : f \in pdffile'} \ FileIds
        ELSE {ev.evento_id : ev \in evento_empresa'} \ EventoIds]

\* the same script run, with the keys it hands out added to atribuidos
Regista ==
    /\ atribuidos' = [t \in Tabelas |-> atribuidos[t] \cup ChavesNovas[t]]
    /\ UNCHANGED exvars

NextChaves ==
    \/ Render /\ Regista
    \/ PaginaEmpresas /\ Regista
    \/ PaginaSocios /\ Regista
    \/ PaginaUpload /\ Regista
    \/ FormCriacao /\ Regista
    \/ FormAccionista /\ Regista
    \/ FormEvento /\ Regista
    \/ BotaoEliminarEmpresa /\ Regista
    \/ BotaoEliminarSocio /\ Regista
    \/ BotaoEliminarEvento /\ Regista

SpecChaves == Init /\ [][NextChaves]_vars

----------------------------------------------------------------------------
(* extrair_texto_pdf_bytes, one step per statement.  A page is what         *)
(* page.extract_text() returns for it: None, or a string.                   *)

PageTexts == {[none |-> TRUE, txt |-> <<>>], [none |-> FALSE, txt |-> <<>>],
              [none |-> FALSE, txt |-> <<"a">>], [none |-> FALSE, txt |-> <<"b", "c">>]}

Documentos ==
    {[readable |-> TRUE, pages |-> ps] : ps \in UNION {[1..n -> PageTexts] : n \in 0..MaxPages}}
    \cup {[readable |-> FALSE, pages |-> <<>>]}

InitExtrair ==
    /\ empresa = {}
    /\ socio = {}
    /\ pdffile = {}
    /\ evento_empresa = {}
    /\ atribuidos = [t \in Tabelas |-> {}]
    /\ msg = "none"
    /\ pdf \in Documentos
    /\ pc = "open"
    /\ idx = 1
    /\ text_all = <<>>

\* a page text followed by a line break
texto_com_quebra(page) == (IF page.none THEN <<>> ELSE page.txt) \o <<"\n">>

\* page.extract_text() or ''
texto_ou_vazio(page) == IF page.none \/ page.txt = <<>> THEN <<>> ELSE page.txt

\* with pdfplumber.open(BytesIO(pdf_bytes)) as pdf: raises on bytes that are no PDF
Abrir ==
    /\ pc = "open"
    /\ pc' = IF pdf.readable THEN "loop" ELSE "raised"
    /\ UNCHANGED <<pdf, idx, text_all>>

\* for page in pdf.pages: text_all += page.extract_text() or ''
Pagina ==
    /\ pc = "loop"
    /\ idx <= Len(pdf.pages)
    /\ text_all' = text_all \o texto_ou_vazio(pdf.pages[idx])
    /\ idx' = idx + 1
    /\ UNCHANGED <<pdf, pc>>

\* return text_all
Retornar ==
    /\ pc = "loop"
    /\ idx > Len(pdf.pages)
    /\ pc' = "done"
    /\ UNCHANGED <<pdf, idx, text_all>>

NextExtrair ==
    \/ Abrir /\ UNCHANGED dbvars
    \/ Pagina /\ UNCHANGED dbvars
    \/ Retornar /\ UNCHANGED dbvars

SpecExtrair == InitExtrair /\ [][NextExtrair]_vars

----------------------------------------------------------------------------
(* Properties *)

Tabelas4 == <<empresa, socio, pdffile, evento_empresa>>

\* C1: registering a 'Criação Empresa' event commits the new Empresa and the
\* EventoEmpresa that references it, or neither of them.
C1_CriacaoAtomica ==
    [][\A sel \in FileIds, d \in Datas, nome \in Nomes, morada \in Textos, cap \in Textos,
          ok1 \in BOOLEAN, ok2 \in BOOLEAN :
          RegistrarCriacao(sel, d, nome, morada, cap, ok1, ok2) =>
              \/ empresa' = empresa /\ evento_empresa' = evento_empresa
              \/ \E e \in empresa' \ empresa, ev \in evento_empresa' \ evento_empresa :
                    ev.empresa_id = e.empresa_id]_vars

\* C2: registering an 'Inserir Accionista' event commits the new Socio and the
\* EventoEmpresa that references it, or neither of them.
C2_AccionistaAtomico ==
    [][\A sel \in FileIds, d \in Datas, emp \in Opcoes(EmpresaIds), nome \in Nomes,
          nif \in Textos,
          morada \in Textos, quota \in Textos, ok1 \in BOOLEAN, ok2 \in BOOLEAN :
          RegistrarAccionista(sel, d, emp, nome, nif, morada, quota, ok1, ok2) =>
              \/ socio' = socio /\ evento_empresa' = evento_empresa
              \/ \E x \in socio' \ socio, ev \in evento_empresa' \ evento_empresa :
                    ev.socio_id = x.socio_id]_vars

\* C3: a confirmed, committed delete of an Empresa (of a Socio) removes that row
\* and exactly the EventoEmpresa rows that reference it; every other row of
\* every table is unchanged.
C3_EliminarCascata ==
    [][/\ \A id \in EmpresaIds :
             EliminarEmpresa(id, TRUE, TRUE) =>
                /\ empresa' = {e \in empresa : e.empresa_id # id}
                /\ evento_empresa' = {ev \in evento_empresa : ev.empresa_id # id}
                /\ UNCHANGED <<socio, pdffile>>
       /\ \A id \in SocioIds :
             EliminarSocio(id, TRUE, TRUE) =>
                /\ socio' = {x \in socio : x.socio_id # id}
                /\ evento_empresa' = {ev \in evento_empresa : ev.socio_id # id}
                /\ UNCHANGED <<empresa, pdffile>>]_vars

\* a state in which the delete of Empresa 1 takes an event with it and leaves
\* another Empresa with its event
C3_Witness ==
    /\ Cardinality(empresa) = 2
    /\ ENABLED (/\ EliminarEmpresa(1, TRUE, TRUE)
                /\ evento_empresa' # evento_empresa
                /\ evento_empresa' # {}
                /\ UNCHANGED exvars)

\* C4: pressing a delete button with the confirmation unset changes no table
\* and shows the warning, for Empresa, Socio and EventoEmpresa alike.
C4_SemConfirmacao ==
    [][\A ok \in BOOLEAN :
          (\/ \E id \in Opcoes(EmpresaIds) : EliminarEmpresa(id, FALSE, ok)
           \/ \E id \in Opcoes(SocioIds) : EliminarSocio(id, FALSE, ok)
           \/ \E id \in Opcoes(EventoIds) : EliminarEvento(id, FALSE, ok)) =>
              /\ UNCHANGED Tabelas4
              /\ msg' = "warning"]_vars

\* each kind of row is present and its unconfirmed delete is about to warn
C4_Witness ==
    /\ 1 \in EmpresaIds /\ 1 \in SocioIds /\ 1 \in EventoIds
    /\ msg # "warning"
    /\ ENABLED (EliminarEmpresa(1, FALSE, TRUE) /\ msg' = "warning" /\ UNCHANGED exvars)
    /\ ENABLED (EliminarSocio(1, FALSE, TRUE) /\ msg' = "warning" /\ UNCHANGED exvars)
    /\ ENABLED (EliminarEvento(1, FALSE, TRUE) /\ msg' = "warning" /\ UNCHANGED exvars)

\* C5: a submission whose Empresa selection names no stored Empresa (none exists
\* to select) is rejected and adds no EventoEmpresa row.
C5_EmpresaInexistente ==
    [][\A emp \in Opcoes(EmpresaIds) \ EmpresaIds :
          \A sel \in FileIds, d \in Datas, ok \in BOOLEAN :
              /\ \A tipo \in TiposGenericos, soc \in {NoId} \cup SocioIds, txt \in DetalhesInputs :
                    RegistrarEvento(sel, tipo, d, emp, soc, txt, ok) =>
                        msg' = "error" /\ evento_empresa' = evento_empresa
              /\ \A nome \in Nomes, nif \in Textos, morada \in Textos, quota \in Textos,
                    ok1 \in BOOLEAN :
                    RegistrarAccionista(sel, d, emp, nome, nif, morada, quota, ok1, ok) =>
                        msg' = "error" /\ evento_empresa' = evento_empresa]_vars

\* a PDF and a Socio are stored, no Empresa is, and the generic form is submitted
C5_Witness ==
    /\ empresa = {}
    /\ socio # {}
    /\ msg = "success"
    /\ ENABLED (/\ \E tipo \in TiposGenericos :
                      RegistrarEvento(1, tipo, "2024-01-01", NoId, 1, T_obj, TRUE)
                /\ UNCHANGED exvars)

\* what C6 expects to be stored for a details text
Esperado(txt) ==
    LET r == json_loads(txt)
    IN  IF r.ok /\ r.val.t = "obj" THEN r.val
        ELSE JObj(<<Member(DESCRICAO, JStr(txt))>>)

\* C6: with an Empresa selected and the commit going through, every details text
\* is stored: as the parsed object when it parses as one, else as
\* {'descricao': text}; the submission never fails on the text.
C6_DetalhesNuncaFalham ==
    [][\A sel \in FileIds, tipo \in TiposGenericos, d \in Datas, emp \in EmpresaIds,
          soc \in {NoId} \cup SocioIds, txt \in DetalhesInputs :
          RegistrarEvento(sel, tipo, d, emp, soc, txt, TRUE) =>
              /\ msg' = "success"
              /\ \E ev \in evento_empresa' \ evento_empresa : ev.detalhes = Esperado(txt)]_vars

\* C7: a table never hands out a key it handed out before; the keys grow in
\* creation order.
C7_ChavesNuncaReusadas ==
    [][\A t \in Tabelas : \A k \in ChavesNovas[t] : \A j \in atribuidos[t] : k > j]_vars

\* C8: a submission with an empty name is rejected and leaves empresa, socio
\* and evento_empresa as they were.
C8_NomeObrigatorio ==
    [][\A d \in Datas, ok \in BOOLEAN, ok2 \in BOOLEAN, sel \in FileIds \cup {NoId},
          emp \in Opcoes(EmpresaIds),
          forma \in Formas, t1 \in Textos, t2 \in Textos, t3 \in Textos :
          (\/ GuardarEmpresa("", forma, d, ok)
           \/ GuardarSocio("", t1, t2, ok)
           \/ RegistrarCriacao(sel, d, "", t1, t2, ok, ok2)
           \/ RegistrarAccionista(sel, d, emp, "", t1, t2, t3, ok, ok2)) =>
              /\ msg' = "error"
              /\ UNCHANGED <<empresa, socio, evento_empresa>>]_vars

\* the texts of the pages that have one, joined in page order
RECURSIVE Junta(_)
Junta(ps) == IF ps = <<>> THEN <<>> ELSE Head(ps).txt \o Junta(Tail(ps))

ComTexto(ps) == SelectSeq(ps, LAMBDA p : ~p.none /\ p.txt # <<>>)

\* C9: on a readable document the extractor returns the page texts joined in
\* page order with nothing between them, a page without text adding nothing,
\* and it does not raise.
C9_Concatenacao ==
    /\ pdf.readable => pc # "raised"
    /\ pc = "loop" => text_all = Junta(ComTexto(SubSeq(pdf.pages, 1, idx - 1)))
    /\ pc = "done" => text_all = Junta(ComTexto(pdf.pages))

\* the function returned for a document with a page without text between two with text
C9_Witness ==
    /\ pc = "done"
    /\ Len(pdf.pages) = 3
    /\ pdf.pages[2].none
    /\ pdf.pages[1].txt # <<>> /\ pdf.pages[3].txt # <<>>
    /\ text_all = pdf.pages[1].txt \o pdf.pages[3].txt

\* C10: every stored EventoEmpresa references a stored Empresa, a stored Socio
\* or none, and a stored PDFFile.
C10_IntegridadeReferencial ==
    \A ev \in evento_empresa :
        /\ ev.empresa_id \in EmpresaIds
        /\ ev.socio_id = NoId \/ ev.socio_id \in SocioIds
        /\ ev.arquivo_pdf_id \in FileIds

\* after a delete (Empresa 1 is gone) and a failed submission, an event with a
\* Socio is stored
C10_Witness ==
    /\ msg = "error"
    /\ EmpresaIds = {2}
    /\ \E ev \in evento_empresa : ev.socio_id # NoId /\ ev.empresa_id = 2

====
